---- MODULE Spec2Model ----
(***************************************************************************)
(* Request/response wrappers of the ROS2 service layer                     *)
(* (src/src/service/wrappers.rs): the three wire mappings (Basic,          *)
(* Enhanced, Cyclone), the reconstruction of the correlation id on unwrap, *)
(* and the pass-through (de)serializer adapters.                           *)
(*                                                                         *)
(* Bytes are numbers 0..255 and a buffer is a sequence of bytes.  A fixed  *)
(* width integer is the sequence of its base-256 digits, most significant  *)
(* first (an i64 is 8 digits, an i32/u32 is 4), so that every 64-bit value *)
(* keeps its width and byte order is something the encoding really does.   *)
(***************************************************************************)
EXTENDS Integers, Sequences, FiniteSets, TLC

\* ------------------------------------------------------------------------
\* Bounds of the model
\* ------------------------------------------------------------------------

\* Sequence numbers 1..MaxSeq (besides UNKNOWN and one with all digits distinct).
MaxSeq == 1

\* Longest instance_name (in characters) in a received BasicRequestHeader.
MaxNameLen == 1

\* ------------------------------------------------------------------------
\* Byte sequences
\* ------------------------------------------------------------------------

Reverse(s) == [i \in 1..Len(s) |-> s[Len(s) + 1 - i]]

\* The first n elements / what follows them.
Prefix(s, n) == SubSeq(s, 1, n)
Suffix(s, n) == SubSeq(s, n + 1, Len(s))

Zeros(n) == [i \in 1..n |-> 0]

\* ------------------------------------------------------------------------
\* Representation identifiers
\* ------------------------------------------------------------------------

CDR_BE == "CDR_BE"
CDR_LE == "CDR_LE"
\* An identifier the CDR codec does not implement.
XML == "XML"

RepresentationIdentifier == {CDR_BE, CDR_LE, XML}

\* ServiceDeserializerAdapter::REPR_IDS
REPR_IDS == {CDR_BE, CDR_LE}

\* ------------------------------------------------------------------------
\* GUID, SequenceNumber, RmwRequestId, SampleIdentity, MessageInfo
\* ------------------------------------------------------------------------

\* Two 8-byte halves each; a GUID is an upper half followed by a lower half.
UpperHalves == { <<1, 2, 3, 4, 5, 6, 7, 8>>, <<33, 34, 35, 36, 37, 38, 39, 40>> }
LowerHalves == { <<9, 10, 11, 12, 13, 14, 15, 16>>, <<41, 42, 43, 44, 45, 46, 47, 48>> }

GUIDs == { u \o l : u \in UpperHalves, l \in LowerHalves }

\* GUID::to_bytes and GUID::from_bytes: the 16 bytes in order.
GUID_to_bytes(g) == g
GUID_from_bytes(b) == b

\* SequenceNumber::UNKNOWN: high = -1, low = 0.
SEQUENCENUMBER_UNKNOWN == <<255, 255, 255, 255, 0, 0, 0, 0>>

SequenceNumbers ==
    { SEQUENCENUMBER_UNKNOWN, <<1, 2, 3, 4, 5, 6, 7, 8>> }
      \cup { Zeros(7) \o <<n>> : n \in 1..MaxSeq }

\* SequenceNumber::high, ::low, ::from_high_low: (n >> 32) as i32,
\* (n & 0xFFFF_FFFF) as u32, ((high as i64) << 32) + (low as i64).
SequenceNumber_high(sn) == Prefix(sn, 4)
SequenceNumber_low(sn) == Suffix(sn, 4)
SequenceNumber_from_high_low(high, low) == high \o low

RmwRequestIds == [writer_guid : GUIDs, sequence_number : SequenceNumbers]

\* RmwRequestId::from(SampleIdentity) and SampleIdentity::from(RmwRequestId).
RmwRequestId_from(si) ==
    [writer_guid |-> si.writer_guid, sequence_number |-> si.sequence_number]
SampleIdentity_from(r_id) ==
    [writer_guid |-> r_id.writer_guid, sequence_number |-> r_id.sequence_number]

None == [some |-> FALSE]
Some(x) == [some |-> TRUE, value |-> x]

\* MessageInfo: the sender's writer GUID, the sample's sequence number and
\* the optional related sample identity of the inline QoS.
MessageInfos ==
    [writer_guid : GUIDs,
     sequence_number : SequenceNumbers,
     related : {None} \cup { Some(si) : si \in RmwRequestIds }]

MessageInfo_writer_guid(mi) == mi.writer_guid
MessageInfo_sample_identity(mi) ==
    [writer_guid |-> mi.writer_guid, sequence_number |-> mi.sequence_number]
MessageInfo_related_sample_identity(mi) == mi.related

\* ------------------------------------------------------------------------
\* Results
\* ------------------------------------------------------------------------

Ok(v) == [ok |-> TRUE, value |-> v]

\* ReadError::Deserialization { reason }
Err(reason) == [ok |-> FALSE, error |-> "Deserialization", reason |-> reason]

\* What the CDR deserializer reports
Eof == "Eof"
BadUTF8 == "BadUTF8"
UnknownRepresentation == "Unknown representation identifier"

\* ------------------------------------------------------------------------
\* CDR encoding (serialization::to_writer_with_rep_id).  Every call starts a
\* serializer of its own, so alignment counts from the first byte the call
\* writes; with these layouts no field ever needs padding.
\* ------------------------------------------------------------------------

\* A fixed-width integer in the byte order of the representation.
EncodeInt(digits, encoding) ==
    IF encoding = CDR_LE THEN Reverse(digits) ELSE digits

\* u32 of a small number (string lengths): three zero digits and the number.
U32(n) == <<0, 0, 0, n>>

\* String: u32 length counting the terminating NUL, the characters, a NUL.
ser_String(s, encoding) == EncodeInt(U32(Len(s) + 1), encoding) \o s \o <<0>>

\* SampleIdentity { writer_guid: GUID, sequence_number: SequenceNumber }
ser_SampleIdentity(si, encoding) ==
    GUID_to_bytes(si.writer_guid) \o EncodeInt(si.sequence_number, encoding)

\* BasicRequestHeader { request_id, instance_name }
ser_BasicRequestHeader(h, encoding) ==
    ser_SampleIdentity(h.request_id, encoding) \o ser_String(h.instance_name, encoding)

\* BasicReplyHeader { related_request_id, remote_exception_code: u32 }
ser_BasicReplyHeader(h, encoding) ==
    ser_SampleIdentity(h.related_request_id, encoding)
      \o EncodeInt(h.remote_exception_code, encoding)

\* CycloneHeader { guid_second_half: [u8; 8], sequence_number_high: i32,
\*                 sequence_number_low: u32 }
ser_CycloneHeader(h, encoding) ==
    h.guid_second_half
      \o EncodeInt(h.sequence_number_high, encoding)
      \o EncodeInt(h.sequence_number_low, encoding)

\* The payload: a struct of i64 fields (AddTwoIntsRequest { a, b },
\* AddTwoIntsResponse { sum }), as the sequence of its fields.
RECURSIVE ser_Payload(_, _)
ser_Payload(v, encoding) ==
    IF v = <<>> THEN <<>>
    ELSE EncodeInt(Head(v), encoding) \o ser_Payload(Tail(v), encoding)

\* The field names of the two payload types.
AddTwoIntsRequest == <<"a", "b">>
AddTwoIntsResponse == <<"sum">>

\* ------------------------------------------------------------------------
\* CDR decoding (deserialize_from_cdr_with_rep_id and
\* deserialize_from_cdr_with_decoder_and_rep_id): the value and the number
\* of bytes consumed, or an error.  Bytes after the value are left alone.
\* ------------------------------------------------------------------------

Decoded(v, size) == [ok |-> TRUE, value |-> v, size |-> size]

DecodeInt(bytes, encoding) ==
    IF encoding = CDR_LE THEN Reverse(bytes) ELSE bytes

\* A u32 length as a number; 256 stands for every length above 255, more
\* than any buffer of the model holds.
LengthOf(digits) ==
    IF digits[1] = 0 /\ digits[2] = 0 /\ digits[3] = 0 THEN digits[4] ELSE 256

\* std::str::from_utf8 on the names of the model, which are ASCII
IsUtf8(s) == \A i \in 1..Len(s) : s[i] < 128

\* String at offset `at`: the length, then that many bytes of which the
\* last (the NUL) is dropped; a length of 0 gives the empty string.
de_String(bytes, at, encoding) ==
    IF Len(bytes) < at + 4 THEN Err(Eof)
    ELSE LET n == LengthOf(DecodeInt(SubSeq(bytes, at + 1, at + 4), encoding))
             raw == SubSeq(bytes, at + 5, at + 4 + n)
             chars == IF n = 0 THEN raw ELSE Prefix(raw, n - 1)
         IN  IF Len(bytes) < at + 4 + n THEN Err(Eof)
             ELSE IF ~IsUtf8(chars) THEN Err(BadUTF8)
             ELSE Decoded(chars, at + 4 + n)

SampleIdentitySize == Len(ser_SampleIdentity(
    [writer_guid |-> Zeros(16), sequence_number |-> Zeros(8)], CDR_LE))

de_SampleIdentity(bytes, encoding) ==
    IF Len(bytes) < SampleIdentitySize THEN Err(Eof)
    ELSE Decoded([writer_guid |-> GUID_from_bytes(SubSeq(bytes, 1, 16)),
                  sequence_number |-> DecodeInt(SubSeq(bytes, 17, 24), encoding)],
                 SampleIdentitySize)

de_BasicRequestHeader(bytes, encoding) ==
    IF encoding \notin {CDR_BE, CDR_LE} THEN Err(UnknownRepresentation)
    ELSE LET id == de_SampleIdentity(bytes, encoding)
         IN  IF ~id.ok THEN id
             ELSE LET name == de_String(bytes, id.size, encoding)
                  IN  IF ~name.ok THEN name
                      ELSE Decoded([request_id |-> id.value,
                                    instance_name |-> name.value], name.size)

de_BasicReplyHeader(bytes, encoding) ==
    IF encoding \notin {CDR_BE, CDR_LE} THEN Err(UnknownRepresentation)
    ELSE LET id == de_SampleIdentity(bytes, encoding)
         IN  IF ~id.ok THEN id
             ELSE IF Len(bytes) < id.size + 4 THEN Err(Eof)
             ELSE Decoded([related_request_id |-> id.value,
                           remote_exception_code |->
                             DecodeInt(SubSeq(bytes, id.size + 1, id.size + 4), encoding)],
                          id.size + 4)

de_CycloneHeader(bytes, encoding) ==
    IF encoding \notin {CDR_BE, CDR_LE} THEN Err(UnknownRepresentation)
    ELSE IF Len(bytes) < 16 THEN Err(Eof)
    ELSE Decoded([guid_second_half |-> SubSeq(bytes, 1, 8),
                  sequence_number_high |-> DecodeInt(SubSeq(bytes, 9, 12), encoding),
                  sequence_number_low |-> DecodeInt(SubSeq(bytes, 13, 16), encoding)],
                 16)

\* The payload of type `seed` (its field names): one i64 per field.
de_Payload(bytes, encoding, seed) ==
    IF encoding \notin {CDR_BE, CDR_LE} THEN Err(UnknownRepresentation)
    ELSE IF Len(bytes) < 8 * Len(seed) THEN Err(Eof)
    ELSE Decoded([i \in 1..Len(seed) |->
                    DecodeInt(SubSeq(bytes, 8 * i - 7, 8 * i), encoding)],
                 8 * Len(seed))

\* ------------------------------------------------------------------------
\* Headers
\* ------------------------------------------------------------------------

BasicRequestHeader_new(request_id) ==
    [request_id |-> request_id, instance_name |-> <<>>]

BasicReplyHeader_new(related_request_id) ==
    [related_request_id |-> related_request_id, remote_exception_code |-> Zeros(4)]

\* CycloneHeader::new that keeps only the low half of the sequence number
CycloneHeader_new_LowOnly(r_id) ==
    LET sn == r_id.sequence_number
    IN  [guid_second_half |-> SubSeq(GUID_to_bytes(r_id.writer_guid), 9, 16),
         sequence_number_high |-> Zeros(4),
         sequence_number_low |-> SequenceNumber_low(sn)]

CycloneHeader_new(r_id) ==
    LET sn == r_id.sequence_number
    IN  [guid_second_half |-> SubSeq(GUID_to_bytes(r_id.writer_guid), 9, 16),
         sequence_number_high |-> SequenceNumber_high(sn),
         sequence_number_low |-> SequenceNumber_low(sn)]

\* ------------------------------------------------------------------------
\* Wrappers
\* ------------------------------------------------------------------------

ServiceMapping == {"Basic", "Enhanced", "Cyclone"}

NoWrapper == [wrapper |-> FALSE]

\* RequestWrapper / ResponseWrapper { serialized_message, encoding }
Wrapper(serialized_message, encoding) ==
    [wrapper |-> TRUE, serialized_message |-> serialized_message, encoding |-> encoding]

\* from_bytes_and_ri that tags the wrapper little-endian whatever it is given
from_bytes_and_ri_FixedTag(input_bytes, encoding) == Wrapper(input_bytes, CDR_LE)

\* Wrapper::from_bytes_and_ri and Wrapper::bytes, the same for both wrappers
from_bytes_and_ri(input_bytes, encoding) == Wrapper(input_bytes, encoding)
bytes(w) == w.serialized_message

\* Bytes::split_off(at): self keeps [0, at), the bytes [at, len) are returned.
split_off(self, at) == [self |-> Prefix(self, at), returned |-> Suffix(self, at)]

\* What unwrap returns
Unwrapped(id, v) == [ok |-> TRUE, id |-> id, value |-> v]

\* helper function of both Cyclone unwraps
cyclone_unwrap_seed(serialized_message, writer_guid, encoding, seed) ==
    LET header == de_CycloneHeader(serialized_message, encoding)
    IN  IF ~header.ok THEN Err(header.reason)
        ELSE IF Len(serialized_message) < header.size
             THEN Err("Service message too short")
        ELSE LET split == split_off(serialized_message, header.size)
                 response == de_Payload(split.self, encoding, seed)
             IN  IF ~response.ok THEN Err(response.reason)
                 ELSE Unwrapped(
                        [writer_guid |-> writer_guid,
                         sequence_number |-> SequenceNumber_from_high_low(
                            header.value.sequence_number_high,
                            header.value.sequence_number_low)],
                        response.value)

\* EnhancedRequestIdentity that always takes the sample's own identity
EnhancedRequestIdentity_OwnOnly(message_info) ==
    MessageInfo_sample_identity(message_info)

\* Enhanced request: the related sample identity, or the sample's own.
EnhancedRequestIdentity(message_info) ==
    IF MessageInfo_related_sample_identity(message_info).some
    THEN MessageInfo_related_sample_identity(message_info).value
    ELSE MessageInfo_sample_identity(message_info)

\* PatchUnknown that replaces the whole id by the sample's own identity
PatchUnknown_WholeIdentity(rmw_req_id, message_info) ==
    IF rmw_req_id.sequence_number = SEQUENCENUMBER_UNKNOWN
    THEN RmwRequestId_from(MessageInfo_sample_identity(message_info))
    ELSE rmw_req_id

\* Enhanced request: an UNKNOWN sequence number is replaced by the sample's.
PatchUnknown(rmw_req_id, message_info) ==
    IF rmw_req_id.sequence_number = SEQUENCENUMBER_UNKNOWN
    THEN [rmw_req_id EXCEPT !.sequence_number =
            MessageInfo_sample_identity(message_info).sequence_number]
    ELSE rmw_req_id

\* RequestWrapper::unwrap_seed that requires the related sample identity of
\* an Enhanced request, as the response side does
RequestWrapper_unwrap_seed_RelatedRequired(self, service_mapping, message_info, seed) ==
    CASE service_mapping = "Basic" ->
           LET header == de_BasicRequestHeader(self.serialized_message, self.encoding)
           IN  IF ~header.ok THEN Err(header.reason)
               ELSE IF Len(self.serialized_message) < header.size
                    THEN Err("Service request too short")
               ELSE LET split == split_off(self.serialized_message, header.size)
                        request == de_Payload(split.self, self.encoding, seed)
                    IN  IF ~request.ok THEN Err(request.reason)
                        ELSE Unwrapped(RmwRequestId_from(header.value.request_id),
                                       request.value)
      [] service_mapping = "Enhanced" ->
           LET request == de_Payload(self.serialized_message, self.encoding, seed)
           IN  IF ~request.ok THEN Err(request.reason)
               ELSE IF ~MessageInfo_related_sample_identity(message_info).some
                    THEN Err("request message did not have related_sample_identity")
               ELSE Unwrapped(
                      PatchUnknown(RmwRequestId_from(EnhancedRequestIdentity(message_info)),
                                   message_info),
                      request.value)
      [] service_mapping = "Cyclone" ->
           cyclone_unwrap_seed(self.serialized_message,
                               MessageInfo_writer_guid(message_info),
                               self.encoding, seed)

RequestWrapper_unwrap_seed(self, service_mapping, message_info, seed) ==
    CASE service_mapping = "Basic" ->
           LET header == de_BasicRequestHeader(self.serialized_message, self.encoding)
           IN  IF ~header.ok THEN Err(header.reason)
               ELSE IF Len(self.serialized_message) < header.size
                    THEN Err("Service request too short")
               ELSE LET split == split_off(self.serialized_message, header.size)
                        request == de_Payload(split.self, self.encoding, seed)
                    IN  IF ~request.ok THEN Err(request.reason)
                        ELSE Unwrapped(RmwRequestId_from(header.value.request_id),
                                       request.value)
      [] service_mapping = "Enhanced" ->
           LET request == de_Payload(self.serialized_message, self.encoding, seed)
           IN  IF ~request.ok THEN Err(request.reason)
               ELSE Unwrapped(
                      PatchUnknown(RmwRequestId_from(EnhancedRequestIdentity(message_info)),
                                   message_info),
                      request.value)
      [] service_mapping = "Cyclone" ->
           cyclone_unwrap_seed(self.serialized_message,
                               MessageInfo_writer_guid(message_info),
                               self.encoding, seed)

\* RequestWrapper::new that writes the request before the header
RequestWrapper_new_PayloadFirst(service_mapping, r_id, encoding, request) ==
    LET header ==
          CASE service_mapping = "Basic" ->
                 ser_BasicRequestHeader(BasicRequestHeader_new(SampleIdentity_from(r_id)),
                                        encoding)
            [] service_mapping = "Enhanced" -> <<>>
            [] service_mapping = "Cyclone" ->
                 ser_CycloneHeader(CycloneHeader_new(r_id), encoding)
    IN  Ok(Wrapper(ser_Payload(request, encoding) \o header, encoding))

RequestWrapper_new(service_mapping, r_id, encoding, request) ==
    LET header ==
          CASE service_mapping = "Basic" ->
                 ser_BasicRequestHeader(BasicRequestHeader_new(SampleIdentity_from(r_id)),
                                        encoding)
            [] service_mapping = "Enhanced" -> <<>>
            [] service_mapping = "Cyclone" ->
                 ser_CycloneHeader(CycloneHeader_new(r_id), encoding)
    IN  Ok(Wrapper(header \o ser_Payload(request, encoding), encoding))

\* CycloneClientGuid that takes both halves from the caller's client_guid
CycloneClientGuid_NoSplice(client_guid, message_info) ==
    GUID_from_bytes(
        SubSeq(GUID_to_bytes(client_guid), 1, 8)
          \o SubSeq(GUID_to_bytes(client_guid), 9, 16))

\* Cyclone response: the client GUID made of the upper half of the caller's
\* client_guid and the lower half of the sender's writer GUID.
CycloneClientGuid(client_guid, message_info) ==
    GUID_from_bytes(
        SubSeq(GUID_to_bytes(client_guid), 1, 8)
          \o SubSeq(GUID_to_bytes(MessageInfo_writer_guid(message_info)), 9, 16))

MissingRelated ==
    "ServiceMapping=Enhanced, but response message did not have related_sample_identity parameter!"

\* EnhancedResponseIdentity that falls back to the sample's own identity,
\* as the request side does
EnhancedResponseIdentity_Fallback(message_info) ==
    IF MessageInfo_related_sample_identity(message_info).some
    THEN Ok(MessageInfo_related_sample_identity(message_info).value)
    ELSE Ok(MessageInfo_sample_identity(message_info))

\* Enhanced response: the related sample identity is required.
EnhancedResponseIdentity(message_info) ==
    IF MessageInfo_related_sample_identity(message_info).some
    THEN Ok(MessageInfo_related_sample_identity(message_info).value)
    ELSE Err(MissingRelated)

ResponseWrapper_unwrap_seed(self, service_mapping, message_info, client_guid, seed) ==
    CASE service_mapping = "Basic" ->
           LET header == de_BasicReplyHeader(self.serialized_message, self.encoding)
           IN  IF ~header.ok THEN Err(header.reason)
               ELSE IF Len(self.serialized_message) < header.size
                    THEN Err("Service response too short")
               ELSE LET split == split_off(self.serialized_message, header.size)
                        response == de_Payload(split.self, self.encoding, seed)
                    IN  IF ~response.ok THEN Err(response.reason)
                        ELSE Unwrapped(RmwRequestId_from(header.value.related_request_id),
                                       response.value)
      [] service_mapping = "Enhanced" ->
           LET response == de_Payload(self.serialized_message, self.encoding, seed)
               related_sample_identity == EnhancedResponseIdentity(message_info)
           IN  IF ~response.ok THEN Err(response.reason)
               ELSE IF ~related_sample_identity.ok THEN related_sample_identity
               ELSE Unwrapped(RmwRequestId_from(related_sample_identity.value),
                              response.value)
      [] service_mapping = "Cyclone" ->
           cyclone_unwrap_seed(self.serialized_message,
                               CycloneClientGuid(client_guid, message_info),
                               self.encoding, seed)

ResponseWrapper_new(service_mapping, r_id, encoding, response) ==
    LET header ==
          CASE service_mapping = "Basic" ->
                 ser_BasicReplyHeader(BasicReplyHeader_new(SampleIdentity_from(r_id)),
                                      encoding)
            [] service_mapping = "Enhanced" -> <<>>
            [] service_mapping = "Cyclone" ->
                 ser_CycloneHeader(CycloneHeader_new(r_id), encoding)
    IN  Ok(Wrapper(header \o ser_Payload(response, encoding), encoding))

\* ------------------------------------------------------------------------
\* Adapters
\* ------------------------------------------------------------------------

\* WrapperDecoder::decode_bytes
decode_bytes(input_bytes, encoding) == Ok(from_bytes_and_ri(input_bytes, encoding))

\* ServiceSerializerAdapter::output_encoding and ::to_bytes
output_encoding == CDR_LE
to_bytes(value) == Ok(bytes(value))

\* ------------------------------------------------------------------------
\* Inputs
\* ------------------------------------------------------------------------

I64(n) == Zeros(7) \o <<n>>

\* AddTwoIntsRequest { a, b } and AddTwoIntsResponse { sum } values
Requests == { <<I64(2), I64(4)>>,
              <<(<<17, 18, 19, 20, 21, 22, 23, 24>>), (<<255, 255, 255, 255, 255, 255, 255, 254>>)>> }
Responses == { <<I64(6)>>, <<(<<17, 18, 19, 20, 21, 22, 23, 24>>)>> }

\* Received buffers: messages as a peer may send them, whole and cut short.
\* The id and the payloads of the received messages:
ReceivedId == [writer_guid |-> <<1, 2, 3, 4, 5, 6, 7, 8, 9, 10, 11, 12, 13, 14, 15, 16>>,
               sequence_number |-> <<1, 2, 3, 4, 5, 6, 7, 8>>]
ReceivedRequest == <<I64(2), I64(4)>>
ReceivedResponse == <<I64(6)>>

\* instance names of up to MaxNameLen characters
InstanceNames == UNION { [1..k -> {65}] : k \in 0..MaxNameLen }

\* Headers a peer may send, as [header |-> bytes, payload |-> bytes]
ReceivedMessages ==
    UNION { 
        { [header |-> ser_BasicRequestHeader(
                        [request_id |-> ReceivedId, instance_name |-> name], e),
           payload |-> ser_Payload(ReceivedRequest, e)] : name \in InstanceNames }
        \cup
        \* a string of length 0, without even the NUL
        { [header |-> ser_SampleIdentity(ReceivedId, e) \o EncodeInt(U32(0), e),
           payload |-> ser_Payload(ReceivedRequest, e)],
          [header |-> ser_BasicReplyHeader(BasicReplyHeader_new(ReceivedId), e),
           payload |-> ser_Payload(ReceivedResponse, e)],
          [header |-> ser_CycloneHeader(CycloneHeader_new(ReceivedId), e),
           payload |-> ser_Payload(ReceivedRequest, e)],
          [header |-> ser_CycloneHeader(CycloneHeader_new(ReceivedId), e),
           payload |-> ser_Payload(ReceivedResponse, e)],
          [header |-> <<>>, payload |-> ser_Payload(ReceivedRequest, e)],
          [header |-> <<>>, payload |-> ser_Payload(ReceivedResponse, e)] }
        : e \in REPR_IDS }

ReceivedBuffers ==
    { m.header \o m.payload : m \in ReceivedMessages }
      \cup UNION { { Prefix(m.header, n) : n \in 0..Len(m.header) } :
                   m \in ReceivedMessages }

\* ------------------------------------------------------------------------
\* State
\* ------------------------------------------------------------------------

VARIABLES
    mode,              \* "request", "response": one wrapper, any metadata;
                       \* "exchange": a request and its response
    service_mapping,   \* the mapping of the client/server pair
    request_wrapper,   \* the RequestWrapper, or NoWrapper
    request_origin,    \* how it was made: new(r_id, encoding, request) or
                       \* decode_bytes(input_bytes, encoding)
    request_info,      \* Some(message_info) given to unwrap
    request_result,    \* Some(what unwrap returned)
    request_sent,      \* Some([bytes, encoding]) handed to the DataWriter
    response_wrapper,
    response_origin,
    response_info,     \* Some([message_info, client_guid]) given to unwrap
    response_result,
    response_sent

vars == <<mode, service_mapping,
          request_wrapper, request_origin, request_info, request_result, request_sent,
          response_wrapper, response_origin, response_info, response_result,
          response_sent>>

request_vars == <<request_wrapper, request_origin, request_info, request_result,
                  request_sent>>
response_vars == <<response_wrapper, response_origin, response_info, response_result,
                   response_sent>>

New(r_id, encoding, value) ==
    [kind |-> "new", r_id |-> r_id, encoding |-> encoding, value |-> value]
Decode(input_bytes, encoding) ==
    [kind |-> "decoded", input_bytes |-> input_bytes, encoding |-> encoding]
NoOrigin == [kind |-> "none"]

Init ==
    /\ mode \in {"request", "response", "exchange"}
    /\ service_mapping \in ServiceMapping
    /\ request_wrapper = NoWrapper
    /\ request_origin = NoOrigin
    /\ request_info = None
    /\ request_result = None
    /\ request_sent = None
    /\ response_wrapper = NoWrapper
    /\ response_origin = NoOrigin
    /\ response_info = None
    /\ response_result = None
    /\ response_sent = None

\* ------------------------------------------------------------------------
\* The request side
\* ------------------------------------------------------------------------

\* The client makes a RequestWrapper of a request.
RequestNew(r_id, encoding, request) ==
    /\ mode \in {"request", "exchange"}
    /\ request_origin = NoOrigin
    /\ LET res == RequestWrapper_new(service_mapping, r_id, encoding, request)
       IN  request_wrapper' = IF res.ok THEN res.value ELSE NoWrapper
    /\ request_origin' = New(r_id, encoding, request)
    /\ UNCHANGED <<mode, service_mapping, request_info, request_result, request_sent,
                   response_vars>>

\* The DataReader hands received bytes to the deserializer adapter.
RequestDecode(input_bytes, encoding) ==
    /\ mode = "request"
    /\ request_origin = NoOrigin
    /\ LET res == decode_bytes(input_bytes, encoding)
       IN  request_wrapper' = IF res.ok THEN res.value ELSE NoWrapper
    /\ request_origin' = Decode(input_bytes, encoding)
    /\ UNCHANGED <<mode, service_mapping, request_info, request_result, request_sent,
                   response_vars>>

\* The DataWriter asks the serializer adapter for the bytes and their tag.
RequestSend ==
    /\ mode = "request"
    /\ request_wrapper # NoWrapper
    /\ request_sent = None
    /\ request_result = None
    /\ LET res == to_bytes(request_wrapper)
       IN  /\ res.ok
           /\ request_sent' = Some([bytes |-> res.value, encoding |-> output_encoding])
    /\ UNCHANGED <<mode, service_mapping, request_wrapper, request_origin, request_info,
                   request_result, response_vars>>

\* The metadata of the request sample of an exchange: sent by the client's
\* request writer as sample r_id, the related identity r_id or absent.
ExchangeRequestInfos(r_id) ==
    { mi \in MessageInfos :
        /\ mi.writer_guid = r_id.writer_guid
        /\ mi.sequence_number = r_id.sequence_number
        /\ mi.related \in {None, Some(r_id)} }

\* The metadata tried with the received buffers: any sender, the sample
\* ReceivedId.sequence_number, the related identity ReceivedId or absent.
ReceivedInfos ==
    { mi \in MessageInfos :
        /\ mi.sequence_number = ReceivedId.sequence_number
        /\ mi.related \in {None, Some(ReceivedId)} }

\* The server unwraps a request.
RequestUnwrap(message_info) ==
    /\ request_wrapper # NoWrapper
    /\ request_result = None
    /\ request_sent = None
    /\ mode = "exchange" => message_info \in ExchangeRequestInfos(request_origin.r_id)
    /\ request_origin.kind = "decoded" => message_info \in ReceivedInfos
    /\ request_info' = Some(message_info)
    /\ request_result' = Some(RequestWrapper_unwrap_seed(
                                request_wrapper, service_mapping, message_info,
                                AddTwoIntsRequest))
    /\ UNCHANGED <<mode, service_mapping, request_wrapper, request_origin, request_sent,
                   response_vars>>

\* ------------------------------------------------------------------------
\* The response side
\* ------------------------------------------------------------------------

\* The server makes a ResponseWrapper of a response; in an exchange, with
\* the id it got from the request.
ResponseNew(r_id, encoding, response) ==
    /\ \/ mode = "response"
       \/ /\ mode = "exchange"
          /\ request_result.some
          /\ request_result.value.ok
          /\ r_id = request_result.value.id
    /\ response_origin = NoOrigin
    /\ LET res == ResponseWrapper_new(service_mapping, r_id, encoding, response)
       IN  response_wrapper' = IF res.ok THEN res.value ELSE NoWrapper
    /\ response_origin' = New(r_id, encoding, response)
    /\ UNCHANGED <<mode, service_mapping, response_info, response_result, response_sent,
                   request_vars>>

ResponseDecode(input_bytes, encoding) ==
    /\ mode = "response"
    /\ response_origin = NoOrigin
    /\ LET res == decode_bytes(input_bytes, encoding)
       IN  response_wrapper' = IF res.ok THEN res.value ELSE NoWrapper
    /\ response_origin' = Decode(input_bytes, encoding)
    /\ UNCHANGED <<mode, service_mapping, response_info, response_result, response_sent,
                   request_vars>>

ResponseSend ==
    /\ mode = "response"
    /\ response_wrapper # NoWrapper
    /\ response_sent = None
    /\ response_result = None
    /\ LET res == to_bytes(response_wrapper)
       IN  /\ res.ok
           /\ response_sent' = Some([bytes |-> res.value, encoding |-> output_encoding])
    /\ UNCHANGED <<mode, service_mapping, response_wrapper, response_origin,
                   response_info, response_result, request_vars>>

\* The metadata of the response sample of an exchange: sent by the server's
\* response writer (any GUID) as any sample, related to the id the server used.
ExchangeResponseInfos(r_id) ==
    { mi \in MessageInfos : mi.related = Some(r_id) }

\* The client unwraps a response.
ResponseUnwrap(message_info, client_guid) ==
    /\ response_wrapper # NoWrapper
    /\ response_result = None
    /\ response_sent = None
    /\ mode = "exchange" =>
         /\ message_info \in ExchangeResponseInfos(response_origin.r_id)
         /\ client_guid = request_origin.r_id.writer_guid
    /\ response_origin.kind = "decoded" => message_info \in ReceivedInfos
    /\ response_info' = Some([message_info |-> message_info, client_guid |-> client_guid])
    /\ response_result' = Some(ResponseWrapper_unwrap_seed(
                                 response_wrapper, service_mapping, message_info,
                                 client_guid, AddTwoIntsResponse))
    /\ UNCHANGED <<mode, service_mapping, response_wrapper, response_origin,
                   response_sent, request_vars>>

Next ==
    \/ \E r_id \in RmwRequestIds, encoding \in REPR_IDS, request \in Requests :
         RequestNew(r_id, encoding, request)
    \/ \E input_bytes \in ReceivedBuffers, encoding \in RepresentationIdentifier :
         RequestDecode(input_bytes, encoding)
    \/ RequestSend
    \/ \E message_info \in MessageInfos : RequestUnwrap(message_info)
    \/ \E r_id \in RmwRequestIds, encoding \in REPR_IDS, response \in Responses :
         ResponseNew(r_id, encoding, response)
    \/ \E input_bytes \in ReceivedBuffers, encoding \in RepresentationIdentifier :
         ResponseDecode(input_bytes, encoding)
    \/ ResponseSend
    \/ \E message_info \in MessageInfos, client_guid \in GUIDs :
         ResponseUnwrap(message_info, client_guid)

Spec == Init /\ [][Next]_vars

\* ------------------------------------------------------------------------
\* Properties
\* ------------------------------------------------------------------------

UpperHalf(g) == SubSeq(GUID_to_bytes(g), 1, 8)
LowerHalf(g) == SubSeq(GUID_to_bytes(g), 9, 16)

RequestUnwrapped == request_result.some
ResponseUnwrapped == response_result.some

\* C1: Basic round-trip.  A wrapper built by new(Basic, r, repr, v) unwraps
\* with mapping Basic to exactly (r, v), for the request wrapper and for the
\* response wrapper.
C1_BasicRoundTrip ==
    /\ (service_mapping = "Basic" /\ request_origin.kind = "new" /\ RequestUnwrapped)
         => request_result.value = Unwrapped(request_origin.r_id, request_origin.value)
    /\ (service_mapping = "Basic" /\ response_origin.kind = "new" /\ ResponseUnwrapped)
         => response_result.value = Unwrapped(response_origin.r_id, response_origin.value)

\* The steps of an exchange as C2 describes them: the request sample is the
\* client's sample r, the server answers with the id it unwrapped, the
\* response metadata relates to that id and the client passes its own GUID.
IsExchange ==
    /\ request_origin.kind = "new"
    /\ RequestUnwrapped
    /\ request_info.value.writer_guid = request_origin.r_id.writer_guid
    /\ request_info.value.sequence_number = request_origin.r_id.sequence_number
    /\ request_info.value.related \in {None, Some(request_origin.r_id)}
    /\ request_result.value.ok
    /\ response_origin.kind = "new"
    /\ response_origin.r_id = request_result.value.id
    /\ ResponseUnwrapped
    /\ response_info.value.message_info.related = Some(response_origin.r_id)
    /\ response_info.value.client_guid = request_origin.r_id.writer_guid

\* C2: End-to-end correlation.  In a full exchange under any one mapping the
\* id the client reconstructs from the response equals the id r it put on
\* the request, whatever the writer GUIDs of client and server.
C2_EndToEndCorrelation ==
    IsExchange =>
        /\ response_result.value.ok
        /\ response_result.value.id = request_origin.r_id

EnhancedResponseWithoutRelated ==
    /\ service_mapping = "Enhanced"
    /\ ResponseUnwrapped
    /\ ~response_info.value.message_info.related.some

\* C4 as stated: an Enhanced response unwrap without related sample identity
\* always fails with the missing-metadata error, whatever the wrapper's bytes.
C4_AlwaysMissingMetadataError ==
    (EnhancedResponseWithoutRelated /\ response_wrapper.encoding \in REPR_IDS) =>
        response_result.value = Err(MissingRelated)

\* C4 as amended: an Enhanced response unwrap without related sample identity
\* always fails and never returns Ok; the error is the missing-metadata error
\* when the wrapper's bytes decode as the payload, and the payload's decode
\* error when they do not.
C4_EnhancedMissingMetadata ==
    EnhancedResponseWithoutRelated =>
        LET payload == de_Payload(response_wrapper.serialized_message,
                                  response_wrapper.encoding, AddTwoIntsResponse)
        IN  /\ ~response_result.value.ok
            /\ payload.ok => response_result.value = Err(MissingRelated)
            /\ ~payload.ok => response_result.value = Err(payload.reason)

C4_Witness ==
    /\ EnhancedResponseWithoutRelated
    /\ response_result.value = Err(MissingRelated)

\* C5: Enhanced UNKNOWN patch.  A successful Enhanced request unwrap with
\* related sample identity {g, UNKNOWN} and own sequence number s returns
\* {g, s}.
C5_EnhancedUnknownPatch ==
    (/\ service_mapping = "Enhanced"
     /\ RequestUnwrapped
     /\ request_result.value.ok
     /\ request_info.value.related.some
     /\ request_info.value.related.value.sequence_number = SEQUENCENUMBER_UNKNOWN) =>
        request_result.value.id =
            [writer_guid |-> request_info.value.related.value.writer_guid,
             sequence_number |-> request_info.value.sequence_number]

C5_Witness ==
    /\ service_mapping = "Enhanced"
    /\ RequestUnwrapped
    /\ request_result.value.ok
    /\ request_info.value.related.some
    /\ request_info.value.related.value.sequence_number = SEQUENCENUMBER_UNKNOWN
    /\ request_info.value.related.value.writer_guid # request_info.value.writer_guid
    /\ request_info.value.sequence_number # SEQUENCENUMBER_UNKNOWN

\* C6: Enhanced request round-trip.  new(Enhanced, r, repr, v) with r's
\* sequence number not UNKNOWN, unwrapped with related sample identity r,
\* returns (r, v) whatever the sample's own identity.
C6_EnhancedRequestRoundTrip ==
    (/\ service_mapping = "Enhanced"
     /\ request_origin.kind = "new"
     /\ request_origin.r_id.sequence_number # SEQUENCENUMBER_UNKNOWN
     /\ RequestUnwrapped
     /\ request_info.value.related = Some(request_origin.r_id)) =>
        request_result.value = Unwrapped(request_origin.r_id, request_origin.value)

C6_Witness ==
    /\ service_mapping = "Enhanced"
    /\ request_origin.kind = "new"
    /\ request_origin.r_id.sequence_number # SEQUENCENUMBER_UNKNOWN
    /\ request_origin.encoding = CDR_BE
    /\ RequestUnwrapped
    /\ request_info.value.related = Some(request_origin.r_id)
    /\ MessageInfo_sample_identity(request_info.value).writer_guid
         # request_origin.r_id.writer_guid
    /\ MessageInfo_sample_identity(request_info.value).sequence_number
         # request_origin.r_id.sequence_number
    /\ request_result.value.ok

\* The length of the header that new writes for a mapping
RequestHeaderLength(mapping, encoding) ==
    Len(RequestWrapper_new(mapping, ReceivedId, encoding, <<>>).value.serialized_message)
ResponseHeaderLength(mapping, encoding) ==
    Len(ResponseWrapper_new(mapping, ReceivedId, encoding, <<>>).value.serialized_message)

\* C7: Too-short buffer.  With mapping Basic or Cyclone, unwrapping a request
\* or response wrapper whose buffer is shorter than the mapping's header
\* returns a deserialization error, never Ok.
C7_TooShortBuffer ==
    /\ (/\ service_mapping \in {"Basic", "Cyclone"}
        /\ RequestUnwrapped
        /\ request_wrapper.encoding \in REPR_IDS
        /\ Len(request_wrapper.serialized_message)
             < RequestHeaderLength(service_mapping, request_wrapper.encoding)) =>
           (~request_result.value.ok /\ request_result.value.error = "Deserialization")
    /\ (/\ service_mapping \in {"Basic", "Cyclone"}
        /\ ResponseUnwrapped
        /\ response_wrapper.encoding \in REPR_IDS
        /\ Len(response_wrapper.serialized_message)
             < ResponseHeaderLength(service_mapping, response_wrapper.encoding)) =>
           (~response_result.value.ok /\ response_result.value.error = "Deserialization")

\* C8: Representation tag matches encoding.  A wrapper built by new with
\* repr big- or little-endian and handed to the serializer adapter is sent
\* with the representation identifier repr its bytes were encoded with.
C8_TagMatchesEncoding ==
    /\ (request_origin.kind = "new" /\ request_sent.some) =>
          request_sent.value.encoding = request_origin.encoding
    /\ (response_origin.kind = "new" /\ response_sent.some) =>
          response_sent.value.encoding = response_origin.encoding

\* C9: Adapter pass-through.  decode_bytes(b, e) succeeds for every b and e
\* and gives a wrapper whose bytes() are b and whose encoding is e; to_bytes
\* on that wrapper returns exactly b.
C9_AdapterPassThrough ==
    /\ request_origin.kind = "decoded" =>
         /\ request_wrapper # NoWrapper
         /\ bytes(request_wrapper) = request_origin.input_bytes
         /\ request_wrapper.encoding = request_origin.encoding
         /\ request_sent.some =>
              request_sent.value.bytes = request_origin.input_bytes
    /\ response_origin.kind = "decoded" =>
         /\ response_wrapper # NoWrapper
         /\ bytes(response_wrapper) = response_origin.input_bytes
         /\ response_wrapper.encoding = response_origin.encoding
         /\ response_sent.some =>
              response_sent.value.bytes = response_origin.input_bytes

C9_Witness ==
    /\ request_origin.kind = "decoded"
    /\ request_origin.input_bytes # <<>>
    /\ request_origin.encoding = XML
    /\ request_sent.some
    /\ request_sent.value.bytes = request_origin.input_bytes

\* C10: Cyclone payload.  Unwrapping with mapping Cyclone a wrapper built by
\* new(Cyclone, r, repr, v) returns payload v, the payload being decoded from
\* the bytes after the header; for request and response wrappers.
C10_CyclonePayload ==
    /\ (service_mapping = "Cyclone" /\ request_origin.kind = "new" /\ RequestUnwrapped) =>
          /\ request_result.value.ok
          /\ request_result.value.value = request_origin.value
    /\ (service_mapping = "Cyclone" /\ response_origin.kind = "new" /\ ResponseUnwrapped) =>
          /\ response_result.value.ok
          /\ response_result.value.value = response_origin.value

C12_WireLayout ==
    /\ request_origin.kind = "new" =>
         LET r == request_origin.r_id
             repr == request_origin.encoding
             payload == ser_Payload(request_origin.value, repr)
             buffer == bytes(request_wrapper)
         IN  /\ request_wrapper.encoding = repr
             /\ service_mapping = "Enhanced" => buffer = payload
             /\ service_mapping = "Basic" =>
                  buffer = GUID_to_bytes(r.writer_guid)
                             \o EncodeInt(r.sequence_number, repr)
                             \o ser_String(<<>>, repr)
                             \o payload
             /\ service_mapping = "Cyclone" =>
                  buffer = LowerHalf(r.writer_guid)
                             \o EncodeInt(SubSeq(r.sequence_number, 1, 4), repr)
                             \o EncodeInt(SubSeq(r.sequence_number, 5, 8), repr)
                             \o payload
    /\ response_origin.kind = "new" =>
         LET r == response_origin.r_id
             repr == response_origin.encoding
             payload == ser_Payload(response_origin.value, repr)
             buffer == bytes(response_wrapper)
         IN  /\ response_wrapper.encoding = repr
             /\ service_mapping = "Enhanced" => buffer = payload
             /\ service_mapping = "Basic" =>
                  buffer = GUID_to_bytes(r.writer_guid)
                             \o EncodeInt(r.sequence_number, repr)
                             \o EncodeInt(Zeros(4), repr)
                             \o payload
             /\ service_mapping = "Cyclone" =>
                  buffer = LowerHalf(r.writer_guid)
                             \o EncodeInt(SubSeq(r.sequence_number, 1, 4), repr)
                             \o EncodeInt(SubSeq(r.sequence_number, 5, 8), repr)
                             \o payload

C12_Witness ==
    /\ service_mapping = "Cyclone"
    /\ request_origin.kind = "new"
    /\ request_origin.encoding = CDR_LE
    /\ request_origin.r_id.sequence_number = <<1, 2, 3, 4, 5, 6, 7, 8>>
    /\ request_origin.value # <<I64(2), I64(4)>>
    /\ Len(bytes(request_wrapper))
         > Len(ser_Payload(request_origin.value, request_origin.encoding))

\* C13: Enhanced request fallback.  When an Enhanced request unwrap finds
\* the payload decodable it succeeds, and the id it returns is the metadata's
\* related sample identity when that is present, with only an UNKNOWN
\* sequence number replaced by the sample's own, and the sample's own
\* identity {own writer GUID, own sequence number} when it is absent;
\* absence is never an error.
C13_EnhancedRequestFallback ==
    (/\ service_mapping = "Enhanced"
     /\ RequestUnwrapped
     /\ de_Payload(request_wrapper.serialized_message, request_wrapper.encoding,
                   AddTwoIntsRequest).ok) =>
        LET mi == request_info.value
            id == request_result.value.id
        IN  /\ request_result.value.ok
            /\ mi.related.some =>
                 /\ id.writer_guid = mi.related.value.writer_guid
                 /\ id.sequence_number =
                      IF mi.related.value.sequence_number = SEQUENCENUMBER_UNKNOWN
                      THEN mi.sequence_number
                      ELSE mi.related.value.sequence_number
            /\ ~mi.related.some =>
                 id = [writer_guid |-> mi.writer_guid,
                       sequence_number |-> mi.sequence_number]

C13_Witness ==
    /\ service_mapping = "Enhanced"
    /\ RequestUnwrapped
    /\ request_origin.kind = "new"
    /\ ~request_info.value.related.some
    /\ request_info.value.writer_guid # request_origin.r_id.writer_guid
    /\ request_result.value.ok
    /\ request_result.value.id =
         [writer_guid |-> request_info.value.writer_guid,
          sequence_number |-> request_info.value.sequence_number]

====
